---- MODULE Spec2Model ----
(***************************************************************************)
(* FWinPhotoViewer (src/app.py): the folder-scoped navigation cursor, the  *)
(* favorites store with its persisted record, and the display state the    *)
(* handlers of MainWindow maintain.                                        *)
(*                                                                         *)
(* Strings are sequences of one-character strings, a pathlib.Path is the   *)
(* sequence of its parts (an absolute path starts with the part "/"), and  *)
(* the conversions str(), Path(), Path.suffix, Path.resolve() and the      *)
(* ordering of Path objects are computed as pathlib computes them.         *)
(***************************************************************************)
EXTENDS Integers, Sequences, FiniteSets, TLC

\* Longest list of path strings in a well-formed favorites.json at start-up.
MaxInitFavs == 1

----------------------------------------------------------------------------
(* Characters and strings *)

\* The characters that occur, in code-point order.
Alphabet ==
  << ".", "/", "G", "N", "P", "a", "b", "c", "d", "e", "f", "g", "h", "i",
     "j", "k", "l", "m", "n", "p", "r", "t", "w", "x" >>

\* Rank of a character in code-point order (what str comparison uses).
Ord(c) == CHOOSE i \in 1..Len(Alphabet) : Alphabet[i] = c

\* str.lower() on one character.
LowerChar(c) ==
  CASE c = "G" -> "g"
    [] c = "N" -> "n"
    [] c = "P" -> "p"
    [] OTHER -> c

\* str.lower()
Lower(s) == [i \in 1..Len(s) |-> LowerChar(s[i])]

\* Python's str.__lt__: lexicographic by code point, a proper prefix is less.
RECURSIVE StrLess(_, _)
StrLess(a, b) ==
  IF b = <<>> THEN FALSE
  ELSE IF a = <<>> THEN TRUE
  ELSE IF Head(a) = Head(b) THEN StrLess(Tail(a), Tail(b))
  ELSE Ord(Head(a)) < Ord(Head(b))

\* Position of the last occurrence of c in s, 0 when there is none
\* (str.rfind, shifted to 1-based positions).
RECURSIVE RFind(_, _)
RFind(s, c) ==
  IF s = <<>> THEN 0
  ELSE IF s[Len(s)] = c THEN Len(s)
  ELSE RFind(SubSeq(s, 1, Len(s) - 1), c)

----------------------------------------------------------------------------
(* pathlib *)

Root == <<"/">>

IsAbsolute(p) == p # <<>> /\ p[1] = Root

\* The parts of a relative path joined with "/".
RECURSIVE JoinParts(_)
JoinParts(parts) ==
  IF parts = <<>> THEN <<>>
  ELSE IF Len(parts) = 1 THEN parts[1]
  ELSE parts[1] \o <<"/">> \o JoinParts(Tail(parts))

\* str(path)
Str(p) ==
  IF p = <<>> THEN <<".">>
  ELSE IF IsAbsolute(p) THEN <<"/">> \o JoinParts(Tail(p))
  ELSE JoinParts(p)

\* s split at every "/" (str.split("/")).
RECURSIVE SplitSlash(_, _)
SplitSlash(s, cur) ==
  IF s = <<>> THEN <<cur>>
  ELSE IF Head(s) = "/" THEN <<cur>> \o SplitSlash(Tail(s), <<>>)
  ELSE SplitSlash(Tail(s), Append(cur, Head(s)))

\* Path(s): empty and "." components are dropped, a leading "/" is the root.
ParsePath(s) ==
  LET raw  == SplitSlash(s, <<>>)
      keep == SelectSeq(raw, LAMBDA c : c # <<>> /\ c # <<".">>)
  IN  IF s # <<>> /\ s[1] = "/" THEN <<Root>> \o keep ELSE keep

\* path.name
Name(p) == IF p = <<>> \/ p = <<Root>> THEN <<>> ELSE p[Len(p)]

\* path.suffix: the text from the last "." of the name, unless that "." is
\* the first or the last character of the name.
Suffix(p) ==
  LET name == Name(p)
      i    == RFind(name, ".")
  IN  IF 1 < i /\ i < Len(name) THEN SubSeq(name, i, Len(name)) ELSE <<>>

\* path.parent
Parent(p) ==
  IF p = <<>> \/ p = <<Root>> THEN p ELSE SubSeq(p, 1, Len(p) - 1)

\* folder / relative
Join(a, rel) == a \o rel

\* Path.__lt__: the parts compared as lists of strings.
RECURSIVE PathLess(_, _)
PathLess(p, q) ==
  IF q = <<>> THEN FALSE
  ELSE IF p = <<>> THEN TRUE
  ELSE IF Head(p) = Head(q) THEN PathLess(Tail(p), Tail(q))
  ELSE StrLess(Head(p), Head(q))

\* sorted(paths) for a collection without repetitions.
RECURSIVE SortPaths(_)
SortPaths(S) ==
  IF S = {} THEN <<>>
  ELSE LET m == CHOOSE x \in S : \A y \in S \ {x} : PathLess(x, y)
       IN  <<m>> \o SortPaths(S \ {m})

----------------------------------------------------------------------------
(* The filesystem the program runs on *)

DirM  == <<Root, <<"m">>>>
DirMA == <<Root, <<"m">>, <<"a">>>>
DirR  == <<Root, <<"r">>>>
DirE  == <<Root, <<"e">>>>
\* /l is a symbolic link to the directory /r.
LinkL == <<Root, <<"l">>>>

FileA   == Join(DirM,  << <<"a", ".", "j", "p", "g">> >>)
FileAB  == Join(DirMA, << <<"b", ".", "j", "p", "g">> >>)
FileN   == Join(DirM,  << <<"n", ".", "t", "x", "t">> >>)
FileC   == Join(DirR,  << <<"c", ".", "P", "N", "G">> >>)

\* /m/d.gif is a directory.
DirD  == Join(DirM, << <<"d", ".", "g", "i", "f">> >>)

Directories  == {<<Root>>, DirM, DirMA, DirD, DirR, DirE}
RegularFiles == {FileA, FileAB, FileN, FileC}
\* Regular files whose bytes no decoder accepts.
CorruptFiles == {FileAB}

\* The target of a symbolic link, as a list of zero or one paths.
SymlinkTarget(p) == IF p = LinkL THEN <<DirR>> ELSE <<>>

\* The working directory of the process.
Cwd == DirE

\* Path.resolve(): made absolute against the working directory, then every
\* symbolic link on the way replaced by its target.
RECURSIVE ResolveFrom(_, _)
ResolveFrom(done, rest) ==
  IF rest = <<>> THEN done
  ELSE LET nxt == Append(done, Head(rest))
           tgt == SymlinkTarget(nxt)
       IN  IF tgt # <<>> THEN ResolveFrom(tgt[1], Tail(rest))
           ELSE ResolveFrom(nxt, Tail(rest))

Resolve(p) ==
  LET abs == IF IsAbsolute(p) THEN p ELSE Join(Cwd, p)
  IN  ResolveFrom(<<Root>>, Tail(abs))

\* path.is_file() and path.exists(): symbolic links are followed.
IsFile(p) == Resolve(p) \in RegularFiles
Exists(p) == Resolve(p) \in RegularFiles \cup Directories

\* The folders QFileDialog.getExistingDirectory can return.
DialogFolders == {DirM, DirR, LinkL, DirE}

----------------------------------------------------------------------------
(* Enumeration and decoding *)

IMAGE_EXTS ==
  { <<".", "j", "p", "g">>, <<".", "j", "p", "e", "g">>,
    <<".", "p", "n", "g">>, <<".", "w", "e", "b", "p">>,
    <<".", "b", "m", "p">>, <<".", "g", "i", "f">>,
    <<".", "h", "e", "i", "c">>, <<".", "h", "e", "i", "f">> }

\* folder.rglob("*"): every entry below the folder, named through the folder
\* as it was given (a folder that is a symbolic link is walked as itself).
RGlob(folder) ==
  LET real == Resolve(folder)
      below == { e \in RegularFiles \cup Directories :
                   /\ Len(e) > Len(real)
                   /\ SubSeq(e, 1, Len(real)) = real }
  IN  { Join(folder, SubSeq(e, Len(real) + 1, Len(e))) : e \in below }

\* The list choose_folder builds: the regular files below the folder with a
\* supported extension, sorted as Path objects.
Enumerate(folder) ==
  SortPaths({ p \in RGlob(folder) :
                Lower(Suffix(p)) \in IMAGE_EXTS /\ IsFile(p) })

\* Enumerate, tabulated for the folders the dialog can return.
Listing == [f \in DialogFolders |-> Enumerate(f)]

\* load_image(path) returns a pixmap (TRUE) or None (FALSE); it raises nothing.
LoadImageOK(p) == IsFile(p) /\ Resolve(p) \notin CorruptFiles

\* Every path an enumeration can produce.
ImagePaths ==
  UNION { { Listing[f][i] : i \in 1..Len(Listing[f]) } : f \in DialogFolders }

----------------------------------------------------------------------------
(* The persisted record favorites.json *)

\* A JSON scalar: t is "str", "num" or "null"; s is the text of a string.
JStr(s) == [t |-> "str", s |-> s]
JNum    == [t |-> "num", s |-> <<>>]

\* A JSON value one level below the top: a list of scalars (elems), an object
\* (keys, in the order the object lists them), or a scalar.
JList(elems)   == [t |-> "list", s |-> <<>>, elems |-> elems, keys |-> <<>>]
JObject(keys)  == [t |-> "obj",  s |-> <<>>, elems |-> <<>>,  keys |-> keys]
JScalar(t, s)  == [t |-> t,      s |-> s,    elems |-> <<>>,  keys |-> <<>>]

\* The file: missing, text json.loads rejects ("garbage"), or a JSON
\* document. Of a top-level object only the value under the key "favorites"
\* matters: fav holds it, or is empty when the object has no such key.
\* json.dumps followed by json.loads returns a list of strings unchanged, so
\* a written document is kept as the value it encodes.
MissingFile     == [kind |-> "missing", top |-> "null", fav |-> <<>>]
GarbageFile     == [kind |-> "garbage", top |-> "null", fav |-> <<>>]
JsonTop(t)      == [kind |-> "json",    top |-> t,      fav |-> <<>>]
JsonFavs(value) == [kind |-> "json",    top |-> "obj",  fav |-> <<value>>]

\* The document json.dumps writes for {"favorites": strings}.
JsonFile(strings) ==
  JsonFavs(JList([i \in 1..Len(strings) |-> JStr(strings[i])]))

\* What "for p in favs" iterates over, or that favs is not iterable.
IterItems(v) ==
  CASE v.t = "list" -> [ok |-> TRUE, items |-> v.elems]
    [] v.t = "str"  -> [ok |-> TRUE,
                        items |-> [i \in 1..Len(v.s) |-> JStr(<<v.s[i]>>)]]
    [] v.t = "obj"  -> [ok |-> TRUE,
                        items |-> [i \in 1..Len(v.keys) |-> JStr(v.keys[i])]]
    [] OTHER        -> [ok |-> FALSE, items |-> <<>>]

\* MainWindow._load_favorites, run on the empty set __init__ assigned: the
\* resulting favorites and the exception that escapes ("none": no exception).
LoadFavorites(file) ==
  IF file.kind = "missing" THEN [favs |-> {}, err |-> "none"]
  ELSE IF file.kind = "garbage" THEN [favs |-> {}, err |-> "none"]
  ELSE IF file.top # "obj" THEN [favs |-> {}, err |-> "none"]
  ELSE LET v  == IF file.fav = <<>> THEN JList(<<>>) ELSE file.fav[1]
           it == IterItems(v)
       IN  IF ~it.ok THEN [favs |-> {}, err |-> "none"]
           ELSE IF \E i \in 1..Len(it.items) : it.items[i].t # "str"
                THEN [favs |-> {}, err |-> "none"]
           ELSE [favs |-> { ParsePath(it.items[i].s) : i \in 1..Len(it.items) },
                 err  |-> "none"]

\* MainWindow._fav_json_payload: the list under "favorites".
FavJsonPayload(favs) ==
  LET sorted == SortPaths(favs)
  IN  [i \in 1..Len(sorted) |-> Str(Resolve(sorted[i]))]

\* _save_favorites without its except clause: the error of a failed write
\* escapes and no warning is raised.
SaveFavorites_NoCatch(favs, file, writeOk, truncated) ==
  IF writeOk
    THEN [file |-> JsonFile(FavJsonPayload(favs)), msg |-> "none",
          err |-> "none", wrote |-> "ok"]
    ELSE [file |-> IF truncated THEN GarbageFile ELSE file,
          msg |-> "none", err |-> "OSError", wrote |-> "failed"]

\* _save_favorites writing the payload of the set as loaded from the old
\* record instead of the set it is given.
SaveFavorites_StalePayload(favs, file, writeOk, truncated) ==
  IF writeOk
    THEN [file |-> JsonFile(FavJsonPayload(LoadFavorites(file).favs)),
          msg |-> "none", err |-> "none", wrote |-> "ok"]
    ELSE [file |-> IF truncated THEN GarbageFile ELSE file,
          msg |-> "Save error", err |-> "none", wrote |-> "failed"]

\* MainWindow._save_favorites: writeOk is whether write_text succeeds; a
\* failed write leaves the file as it was or, when it fails after the file
\* was opened for writing, truncated.
SaveFavorites(favs, file, writeOk, truncated) ==
  IF writeOk
    THEN [file |-> JsonFile(FavJsonPayload(favs)), msg |-> "none",
          err |-> "none", wrote |-> "ok"]
    ELSE [file |-> IF truncated THEN GarbageFile ELSE file,
          msg |-> "Save error", err |-> "none", wrote |-> "failed"]

----------------------------------------------------------------------------
(* Images and _apply_exif_orientation *)

\* Largest width and height of the images tried.
MaxSide == 3
\* Largest value of the orientation tag tried; the values start at 0.
MaxTag == 9

\* An image: px[<<x, y>>] is the pixel in column x (from the left) and row y
\* (from the top), both counted from 0.
Image(w, h, px) == [w |-> w, h |-> h, px |-> px]
NoImage == Image(0, 0, <<>>)

\* The image of the given size whose pixels are all different.
TestImage(w, h) ==
  Image(w, h, [c \in (0..(w - 1)) \X (0..(h - 1)) |-> c[2] * w + c[1]])

\* What the file holds for _getexif: no Orientation entry ("absent"), an
\* Orientation entry with the value val ("value"), or data on which
\* Image.open or _getexif raises ("corrupt").
ExifTag(state, val) == [state |-> state, val |-> val]
NoTag == ExifTag("absent", 0)

\* A QTransform without translation: << m11, m12, m21, m22 >>; a point
\* (x, y) is mapped to (m11*x + m21*y, m12*x + m22*y).
QIdentity == << 1, 0, 0, 1 >>

\* QTransform.scale(sx, sy): the scaling is applied before the transform
\* already held.
QScale(m, sx, sy) == << sx * m[1], sx * m[2], sy * m[3], sy * m[4] >>

\* Sine and cosine of the multiples of 90 degrees the code uses.
Sin(a) == CASE a = 90 -> 1 [] a = -90 -> -1 [] OTHER -> 0
Cos(a) == CASE a = 180 -> -1 [] a = 0 -> 1 [] OTHER -> 0

\* QTransform.rotate(a): the rotation is applied before the transform
\* already held.
QRotate(m, a) ==
  << Cos(a) * m[1] + Sin(a) * m[3],  Cos(a) * m[2] + Sin(a) * m[4],
     Cos(a) * m[3] - Sin(a) * m[1],  Cos(a) * m[4] - Sin(a) * m[2] >>

MapX(m, x, y) == m[1] * x + m[3] * y
MapY(m, x, y) == m[2] * x + m[4] * y

Min(S) == CHOOSE x \in S : \A y \in S : x <= y
Max(S) == CHOOSE x \in S : \A y \in S : x >= y

\* QImage.transformed(m) for a transform that maps the pixel grid onto a
\* pixel grid: the image is moved so that its bounding rectangle starts at
\* (0, 0), and every pixel lands where its centre is mapped (centres are
\* computed in half-pixel units).
Transformed(img, m) ==
  LET xs   == { MapX(m, x, y) : x \in {0, img.w}, y \in {0, img.h} }
      ys   == { MapY(m, x, y) : x \in {0, img.w}, y \in {0, img.h} }
      w2   == Max(xs) - Min(xs)
      h2   == Max(ys) - Min(ys)
      src(u, v) ==
        CHOOSE c \in DOMAIN img.px :
          /\ MapX(m, 2 * c[1] + 1, 2 * c[2] + 1) - 2 * Min(xs) = 2 * u + 1
          /\ MapY(m, 2 * c[1] + 1, 2 * c[2] + 1) - 2 * Min(ys) = 2 * v + 1
  IN  Image(w2, h2,
            [d \in (0..(w2 - 1)) \X (0..(h2 - 1)) |-> img.px[src(d[1], d[2])]])

\* Lines 39-55 read as their comments word them: "Rotated 270 CW" for 6 and
\* "Rotated 90 CW" for 8.
OrientationTransform_AsCommented(orientation) ==
  CASE orientation = 2 -> QScale(QIdentity, -1, 1)
    [] orientation = 3 -> QRotate(QIdentity, 180)
    [] orientation = 4 -> QScale(QIdentity, 1, -1)
    [] orientation = 5 -> QRotate(QScale(QIdentity, -1, 1), 90)
    [] orientation = 6 -> QRotate(QIdentity, -90)
    [] orientation = 7 -> QRotate(QScale(QIdentity, -1, 1), -90)
    [] orientation = 8 -> QRotate(QIdentity, 90)
    [] OTHER -> QIdentity

\* Lines 39-55: the QTransform built for an orientation value.
OrientationTransform(orientation) ==
  CASE orientation = 2 -> QScale(QIdentity, -1, 1)
    [] orientation = 3 -> QRotate(QIdentity, 180)
    [] orientation = 4 -> QScale(QIdentity, 1, -1)
    [] orientation = 5 -> QRotate(QScale(QIdentity, -1, 1), 90)
    [] orientation = 6 -> QRotate(QIdentity, 90)
    [] orientation = 7 -> QRotate(QScale(QIdentity, -1, 1), -90)
    [] orientation = 8 -> QRotate(QIdentity, -90)
    [] OTHER -> QIdentity

\* _apply_exif_orientation(path, qimg) for a file whose EXIF state is t.
ApplyExifOrientation(t, qimg) ==
  IF t.state = "corrupt" THEN qimg
  ELSE IF t.state = "absent" THEN qimg
  ELSE IF OrientationTransform(t.val) = QIdentity THEN qimg
  ELSE Transformed(qimg, OrientationTransform(t.val))

----------------------------------------------------------------------------
(* Python list indexing *)

\* files[i] raises IndexError outside -len..len-1.
IndexOK(fs, i) == i < Len(fs) /\ i >= -Len(fs)
At(fs, i)      == IF i >= 0 THEN fs[i + 1] ELSE fs[Len(fs) + i + 1]

----------------------------------------------------------------------------
(* State *)

VARIABLES
  folder,     \* self.folder: <<>> for None, else <<path>>
  files,      \* self.files
  index,      \* self.index
  favorites,  \* self.favorites
  favFile,    \* the contents of FAV_FILE
  shown,      \* the path whose pixmap the viewer holds: <<>> or <<path>>
  favIcon,    \* TRUE when fav_btn shows the filled heart
  msg,        \* the message box the last handler raised, "none" if none
  err,        \* the exception that escaped the last handler, "none" if none
  lastOp,     \* the handler that ran last
  wrote,      \* outcome of the last handler's write_text: "none", "ok", "failed"
  prev1,      \* <<favorites before the last toggle>> when the last handler
              \* was a toggle that reached the flip, else <<>>
  prev2,      \* prev1 as it was before the last toggle that reached the flip
  decoded,    \* what load_image gave the last handler: "none" when it was
              \* not called, "ok" for a pixmap, "failed" for None
  dest,       \* the names of the entries of the folder the last handler
              \* exported into, as it left them; {} if it copied nowhere
  copied,     \* the count the last export reported
  log,        \* the copies the last export attempted, in order
  tag,        \* the EXIF state of the file _apply_exif_orientation reads
  raster,     \* the image _apply_exif_orientation is given and returns
  walk        \* the order in which folder.rglob yields its entries

vars == << folder, files, index, favorites, favFile, shown, favIcon, msg, err,
           lastOp, wrote, prev1, prev2, decoded, dest, copied, log, tag,
           raster, walk >>

\* What a handler other than export_favorites leaves of the export state.
NoExport == log' = <<>> /\ copied' = 0 /\ dest' = {}

\* The handlers of MainWindow do not touch what the pure functions are
\* applied to.
PureUnchanged == UNCHANGED << tag, raster, walk >>

----------------------------------------------------------------------------
(* The favorites.json a session can start with *)

\* The lists of distinct elements of S of length at most n.
RECURSIVE DistinctSeqs(_, _)
DistinctSeqs(S, n) ==
  IF n = 0 THEN { <<>> }
  ELSE LET shorter == DistinctSeqs(S, n - 1)
           longer  == UNION { { Append(q, x) :
                                  x \in { y \in S :
                                            \A i \in 1..Len(q) : q[i] # y } } :
                              q \in shorter }
       IN  shorter \cup longer

KeyK == <<"k">>

\* Records of every shape _load_favorites distinguishes.
LoadRecords ==
  { MissingFile, GarbageFile,
    JsonTop("list"), JsonTop("str"), JsonTop("num"), JsonTop("null"),
    JsonTop("obj"),
    JsonFavs(JScalar("num", <<>>)), JsonFavs(JScalar("null", <<>>)),
    JsonFavs(JScalar("str", <<>>)), JsonFavs(JScalar("str", <<"a", "b">>)),
    JsonFavs(JObject(<<>>)), JsonFavs(JObject(<<KeyK>>)),
    JsonFavs(JList(<<JNum>>)),
    JsonFavs(JList(<<JStr(Str(FileA)), JNum>>)) }
  \cup { JsonFile(q) : q \in DistinctSeqs({ Str(p) : p \in ImagePaths },
                                          MaxInitFavs + 2) }

\* The records a session of the program starts with: none, or a well-formed
\* list of path strings.
InitRecords ==
  { MissingFile }
  \cup { JsonFile(q) : q \in DistinctSeqs({ Str(p) : p \in ImagePaths },
                                          MaxInitFavs) }

----------------------------------------------------------------------------
(* Handlers *)

\* Line 239, "if not self.files or self.index < 0".
FavIconGuard(fs, i) == fs = <<>> \/ i < 0

\* MainWindow._update_fav_icon: the heart shown, and the exception raised.
UpdateFavIcon(fs, i, favs) ==
  IF FavIconGuard(fs, i) THEN [icon |-> FALSE, err |-> "none"]
  ELSE IF ~IndexOK(fs, i) THEN [icon |-> FALSE, err |-> "IndexError"]
  ELSE [icon |-> At(fs, i) \in favs, err |-> "none"]

\* Line 249, "if self.index < 0 or self.index >= len(self.files)".
ShowGuard(fs, i) == i < 0 \/ i >= Len(fs)

\* load_image with the except clause of its HEIC branch removed: a failed
\* decode of such a file raises instead of returning None.
LoadImage_Raises(p) ==
  [ok |-> LoadImageOK(p), err |-> IF LoadImageOK(p) THEN "none" ELSE "OSError"]

\* load_image(path): ok is whether a pixmap is returned rather than None, err
\* the exception that escapes. The HEIC branch catches every Exception of
\* its decoder, the other branch tests reader.read() with isNull().
LoadImage(p) ==
  IF Lower(Suffix(p)) \in { <<".", "h", "e", "i", "c">>,
                            <<".", "h", "e", "i", "f">> }
    THEN [ok |-> LoadImageOK(p), err |-> "none"]
    ELSE [ok |-> LoadImageOK(p), err |-> "none"]

\* MainWindow._show_current, from a viewer holding curShown with the heart
\* curIcon.
ShowCurrent(fs, i, favs, curShown, curIcon) ==
  IF ShowGuard(fs, i)
    THEN [shown |-> curShown, icon |-> curIcon, err |-> "none",
          decoded |-> "none"]
  ELSE IF ~IndexOK(fs, i)
    THEN [shown |-> curShown, icon |-> curIcon, err |-> "IndexError",
          decoded |-> "none"]
  ELSE IF LoadImage(At(fs, i)).err # "none"
    THEN [shown |-> curShown, icon |-> curIcon,
          err |-> LoadImage(At(fs, i)).err, decoded |-> "failed"]
  ELSE IF ~LoadImage(At(fs, i)).ok
    THEN [shown |-> curShown, icon |-> curIcon, err |-> "none",
          decoded |-> "failed"]
  ELSE LET u == UpdateFavIcon(fs, i, favs)
       IN  [shown |-> <<At(fs, i)>>,
            icon  |-> IF u.err = "none" THEN u.icon ELSE curIcon,
            err   |-> u.err,
            decoded |-> "ok"]

\* MainWindow.__init__: a new instance, reading the record as it is.
Construct(file) ==
  /\ folder = <<>>
  /\ files = <<>>
  /\ index = -1
  /\ favorites = LoadFavorites(file).favs
  /\ favFile = file
  /\ shown = <<>>
  /\ favIcon = FALSE
  /\ msg = "none"
  /\ err = LoadFavorites(file).err
  /\ lastOp = "init"
  /\ wrote = "none"
  /\ prev1 = <<>>
  /\ prev2 = <<>>
  /\ decoded = "none"

\* Nothing exported yet into an empty export folder.
ExportIdle == dest = {} /\ copied = 0 /\ log = <<>>

\* No image under _apply_exif_orientation and no folder being walked.
PureIdle == tag = NoTag /\ raster = NoImage /\ walk = <<>>

Init == \E file \in InitRecords : Construct(file) /\ ExportIdle /\ PureIdle

\* The program is closed and started again.
Restart ==
  /\ folder' = <<>>
  /\ files' = <<>>
  /\ index' = -1
  /\ favorites' = LoadFavorites(favFile).favs
  /\ favFile' = favFile
  /\ shown' = <<>>
  /\ favIcon' = FALSE
  /\ msg' = "none"
  /\ err' = LoadFavorites(favFile).err
  /\ lastOp' = "init"
  /\ wrote' = "none"
  /\ prev1' = <<>>
  /\ prev2' = <<>>
  /\ decoded' = "none"
  /\ NoExport
  /\ PureUnchanged

\* MainWindow.choose_folder when the dialog is cancelled.
ChooseFolderCancel ==
  /\ lastOp' = "choose_cancel"
  /\ msg' = "none"
  /\ err' = "none"
  /\ wrote' = "none"
  /\ prev1' = <<>>
  /\ prev2' = <<>>
  /\ UNCHANGED << folder, files, index, favorites, favFile, shown, favIcon >>
  /\ decoded' = "none"
  /\ NoExport
  /\ PureUnchanged

\* MainWindow.choose_folder when the dialog returns the folder f.
ChooseFolder(f) ==
  LET fs == Listing[f]
      sc == ShowCurrent(fs, 0, favorites, shown, favIcon)
  IN  /\ folder' = <<f>>
      /\ files' = fs
      /\ lastOp' = "choose"
      /\ wrote' = "none"
      /\ prev1' = <<>>
      /\ prev2' = <<>>
      /\ UNCHANGED << favorites, favFile >>
      /\ NoExport
      /\ PureUnchanged
      /\ IF fs = <<>>
           THEN /\ msg' = "No images"
                /\ err' = "none"
                /\ decoded' = "none"
                /\ UNCHANGED << index, shown, favIcon >>
           ELSE /\ msg' = "none"
                /\ index' = 0
                /\ shown' = sc.shown
                /\ favIcon' = sc.icon
                /\ err' = sc.err
                /\ decoded' = sc.decoded

\* Lines 263 and 269, "if not self.files".
NavGuard(fs) == fs = <<>>

\* The index next_image and prev_image move to; len(files) is not zero.
NextIndex(i, n) == (i + 1) % n
PrevIndex(i, n) == (i - 1) % n

\* MainWindow.next_image
NextImage ==
  /\ lastOp' = "next"
  /\ msg' = "none"
  /\ wrote' = "none"
  /\ prev1' = <<>>
  /\ prev2' = <<>>
  /\ UNCHANGED << folder, files, favorites, favFile >>
  /\ NoExport
  /\ PureUnchanged
  /\ IF NavGuard(files)
       THEN /\ err' = "none"
            /\ decoded' = "none"
            /\ UNCHANGED << index, shown, favIcon >>
     ELSE IF Len(files) = 0
       THEN /\ err' = "ZeroDivisionError"
            /\ decoded' = "none"
            /\ UNCHANGED << index, shown, favIcon >>
     ELSE LET i  == NextIndex(index, Len(files))
              sc == ShowCurrent(files, i, favorites, shown, favIcon)
          IN  /\ index' = i
              /\ shown' = sc.shown
              /\ favIcon' = sc.icon
              /\ err' = sc.err
              /\ decoded' = sc.decoded

\* MainWindow.prev_image
PrevImage ==
  /\ lastOp' = "prev"
  /\ msg' = "none"
  /\ wrote' = "none"
  /\ prev1' = <<>>
  /\ prev2' = <<>>
  /\ UNCHANGED << folder, files, favorites, favFile >>
  /\ NoExport
  /\ PureUnchanged
  /\ IF NavGuard(files)
       THEN /\ err' = "none"
            /\ decoded' = "none"
            /\ UNCHANGED << index, shown, favIcon >>
     ELSE IF Len(files) = 0
       THEN /\ err' = "ZeroDivisionError"
            /\ decoded' = "none"
            /\ UNCHANGED << index, shown, favIcon >>
     ELSE LET i  == PrevIndex(index, Len(files))
              sc == ShowCurrent(files, i, favorites, shown, favIcon)
          IN  /\ index' = i
              /\ shown' = sc.shown
              /\ favIcon' = sc.icon
              /\ err' = sc.err
              /\ decoded' = sc.decoded

\* The guard of toggle_favorite without its test of self.files.
ToggleGuard_IndexOnly(fs, i) == i < 0

\* Line 276, "if not self.files or self.index < 0".
ToggleGuard(fs, i) == fs = <<>> \/ i < 0

\* A toggle that only ever adds.
ToggleFlip_AddOnly(favs, path) == favs \cup {path}

\* Lines 279-282: the membership of path flipped.
ToggleFlip(favs, path) ==
  IF path \in favs THEN favs \ {path} ELSE favs \cup {path}

\* MainWindow.toggle_favorite; writeOk and truncated are what the file
\* system does to the write.
ToggleFavorite(writeOk, truncated) ==
  /\ lastOp' = "toggle"
  /\ UNCHANGED << folder, files, index >>
  /\ NoExport
  /\ PureUnchanged
  /\ IF ToggleGuard(files, index)
       THEN /\ msg' = "none"
            /\ err' = "none"
            /\ wrote' = "none"
            /\ prev1' = <<>>
            /\ prev2' = <<>>
            /\ decoded' = "none"
            /\ UNCHANGED << favorites, favFile, shown, favIcon >>
     ELSE IF ~IndexOK(files, index)
       THEN /\ msg' = "none"
            /\ err' = "IndexError"
            /\ wrote' = "none"
            /\ prev1' = <<>>
            /\ prev2' = <<>>
            /\ decoded' = "none"
            /\ UNCHANGED << favorites, favFile, shown, favIcon >>
     ELSE LET flipped == ToggleFlip(favorites, At(files, index))
              sv == SaveFavorites(flipped, favFile, writeOk, truncated)
              u  == UpdateFavIcon(files, index, flipped)
              sc == ShowCurrent(files, index, flipped, shown,
                                IF u.err = "none" THEN u.icon ELSE favIcon)
          IN  /\ favorites' = flipped
              /\ prev1' = <<favorites>>
              /\ prev2' = prev1
              /\ favFile' = sv.file
              /\ msg' = sv.msg
              /\ wrote' = sv.wrote
              /\ IF sv.err # "none"
                   THEN /\ err' = sv.err
                        /\ decoded' = "none"
                        /\ UNCHANGED << shown, favIcon >>
                 ELSE IF u.err # "none"
                   THEN /\ err' = u.err
                        /\ decoded' = "none"
                        /\ UNCHANGED << shown, favIcon >>
                 ELSE /\ err' = sc.err
                      /\ shown' = sc.shown
                      /\ favIcon' = sc.icon
                      /\ decoded' = sc.decoded

Next ==
  \/ Restart
  \/ ChooseFolderCancel
  \/ \E f \in DialogFolders : ChooseFolder(f)
  \/ NextImage
  \/ PrevImage
  \/ \E writeOk \in BOOLEAN, truncated \in BOOLEAN :
       ToggleFavorite(writeOk, truncated)

Spec == Init /\ [][Next]_vars

----------------------------------------------------------------------------
(* Start-up on an arbitrary record: __init__ at line 176, the fields         *)
(* assigned and _load_favorites about to run.                                *)

Boot(file) ==
  /\ folder = <<>>
  /\ files = <<>>
  /\ index = -1
  /\ favorites = {}
  /\ favFile = file
  /\ shown = <<>>
  /\ favIcon = FALSE
  /\ msg = "none"
  /\ err = "none"
  /\ lastOp = "boot"
  /\ wrote = "none"
  /\ prev1 = <<>>
  /\ prev2 = <<>>
  /\ decoded = "none"

\* Line 177, self._load_favorites(), and the rest of __init__.
StartupLoad ==
  /\ lastOp = "boot"
  /\ lastOp' = "init"
  /\ favorites' = LoadFavorites(favFile).favs
  /\ err' = LoadFavorites(favFile).err
  /\ UNCHANGED << folder, files, index, favFile, shown, favIcon, msg, wrote,
                  prev1, prev2, decoded, dest, copied, log >>
  /\ PureUnchanged

InitLoad == \E file \in LoadRecords : Boot(file) /\ ExportIdle /\ PureIdle

NextLoad == StartupLoad

SpecLoad == InitLoad /\ [][NextLoad]_vars

----------------------------------------------------------------------------
(* Properties *)

\* There is a current image: the index is a position of the file list.
HasCurrent == 0 <= index /\ index < Len(files)

\* The record is a JSON object whose "favorites" is a list of strings.
WellFormed(file) ==
  /\ file.kind = "json"
  /\ file.top = "obj"
  /\ file.fav # <<>>
  /\ file.fav[1].t = "list"
  /\ \A i \in 1..Len(file.fav[1].elems) : file.fav[1].elems[i].t = "str"

\* The strings a well-formed record lists.
Listed(file) ==
  [i \in 1..Len(file.fav[1].elems) |-> file.fav[1].elems[i].s]

\* The record lists the members of favs, each in its resolved form, and
\* nothing else.
ListsMembersOf(file, favs) ==
  /\ WellFormed(file)
  /\ { ParsePath(Listed(file)[i]) : i \in 1..Len(Listed(file)) }
       = { Resolve(p) : p \in favs }

\* favs and before differ in the membership of p and of no other path.
FlippedOnly(favs, before, p) ==
  /\ (p \in favs) # (p \in before)
  /\ favs \ {p} = before \ {p}

\* C1: in every reachable state the index is -1 or a position of the current
\* file list.
C1_IndexValid == index = -1 \/ (0 <= index /\ index < Len(files))

\* C2: after a folder was selected, the file list is the fresh enumeration of
\* that folder and the index is 0 when the list is not empty and -1 when it is.
C2_SelectFolderResets ==
  lastOp = "choose" =>
    /\ folder # <<>>
    /\ files = Enumerate(folder[1])
    /\ index = IF files = <<>> THEN -1 ELSE 0

\* C3: next at the last index moves to 0 and otherwise adds 1; previous at 0
\* moves to the last index and otherwise subtracts 1; on an empty list both
\* change nothing and the index stays at -1.
C3_Wraparound ==
  [][ /\ lastOp' = "next" =>
           IF files = <<>> THEN index' = -1 /\ files' = files
           ELSE index' = IF index = Len(files) - 1 THEN 0 ELSE index + 1
      /\ lastOp' = "prev" =>
           IF files = <<>> THEN index' = -1 /\ files' = files
           ELSE index' = IF index = 0 THEN Len(files) - 1 ELSE index - 1
    ]_vars

\* C4: no handler ever lets an IndexError or ZeroDivisionError escape, and
\* with no current image next, previous and toggle change nothing.
C4_Total ==
  /\ [](err = "none")
  /\ [][ (~HasCurrent /\ lastOp' \in {"next", "prev", "toggle"}) =>
           /\ UNCHANGED << folder, files, index, favorites, favFile, shown,
                           favIcon >>
           /\ msg' = "none"
           /\ wrote' = "none" ]_vars

\* C4 witness: toggle has run on an empty list left behind with a stale index.
C4_Witness == lastOp = "toggle" /\ files = <<>> /\ index >= 0

\* C5: a toggle changes the membership of the current image only, and two
\* toggles in succession give back the set the first one started from.
C5_ToggleTwice ==
  /\ prev1 # <<>> =>
       HasCurrent /\ FlippedOnly(favorites, prev1[1], At(files, index))
  /\ prev2 # <<>> => favorites = prev2[1]

\* C5 witness: two toggles ran in succession on a set that held other paths.
C5_Witness ==
  /\ prev2 # <<>>
  /\ At(files, index) \in favorites
  /\ favorites # {At(files, index)}

\* C6: when a toggle made the current image a favorite and the write
\* succeeded, a new instance loading the record has that same path as a
\* favorite.
C6_RoundTrip ==
  [][ ( /\ lastOp = "toggle"
        /\ prev1 # <<>>
        /\ wrote = "ok"
        /\ At(files, index) \in favorites
        /\ lastOp' = "init" )
      => At(files, index) \in favorites' ]_vars

\* C7: after a toggle with a successful write the record lists exactly the
\* current members, in ascending order of the written strings, none twice.
C7_RecordSortedExact ==
  (lastOp = "toggle" /\ wrote = "ok") =>
    /\ ListsMembersOf(favFile, favorites)
    /\ \A i \in 1..Len(Listed(favFile)) : \A j \in 1..Len(Listed(favFile)) :
         i < j => StrLess(Listed(favFile)[i], Listed(favFile)[j])

\* C8: loading never fails the caller, and a record that is missing,
\* unparseable, without the key or of a wrong type gives the empty set.
C8_LoadDegrades ==
  lastOp = "init" =>
    /\ err = "none"
    /\ ~WellFormed(favFile) => favorites = {}

\* C9: when the write of a toggle fails, a warning is raised, nothing escapes,
\* and the in-memory set keeps the flipped membership, which the favorite
\* indicator shows.
C9_SaveFailureNonFatal ==
  wrote = "failed" =>
    /\ lastOp = "toggle"
    /\ msg = "Save error"
    /\ err = "none"
    /\ prev1 # <<>>
    /\ HasCurrent
    /\ FlippedOnly(favorites, prev1[1], At(files, index))
    /\ favIcon = (At(files, index) \in favorites)

\* C9 witness: a toggle whose write failed left the image a favorite in memory.
C9_Witness ==
  /\ wrote = "failed"
  /\ msg = "Save error"
  /\ At(files, index) \in favorites

\* C10 as stated: a toggle either flips the membership and leaves a record
\* listing the flipped set, or leaves both the set and the record as they were.
C10_AllOrNothing ==
  [][ lastOp' = "toggle" =>
        \/ /\ HasCurrent
           /\ FlippedOnly(favorites', favorites, At(files, index))
           /\ ListsMembersOf(favFile', favorites')
        \/ /\ favorites' = favorites
           /\ favFile' = favFile ]_vars

\* C10 amended: a toggle on a current image always flips the membership in
\* memory; when the write succeeded the record lists the flipped set, and
\* when it failed a warning is raised, the set stays flipped and the record
\* is as it was or left truncated.
C10_FlipKeptOnFailure ==
  [][ (lastOp' = "toggle" /\ HasCurrent) =>
        /\ FlippedOnly(favorites', favorites, At(files, index))
        /\ wrote' \in {"ok", "failed"}
        /\ wrote' = "ok" => ListsMembersOf(favFile', favorites')
        /\ wrote' = "failed" =>
             /\ msg' = "Save error"
             /\ favFile' \in {favFile, GarbageFile} ]_vars

\* C10 witness: after a failed write the set is flipped and the record still
\* lists the old membership.
C10_Witness ==
  /\ lastOp = "toggle"
  /\ wrote = "failed"
  /\ prev1 # <<>>
  /\ ListsMembersOf(favFile, prev1[1])
  /\ ~ListsMembersOf(favFile, favorites)

\* C15: a failed decode lets nothing escape and leaves the navigation state
\* as the handler had set it before decoding: next and previous have moved
\* the index by one with wraparound, toggle has not touched it, choose_folder
\* has set the fresh list and index 0.
C15_DecodeFailureKeepsNav ==
  [][ decoded' = "failed" =>
        /\ err' = "none"
        /\ lastOp' \in {"choose", "next", "prev", "toggle"}
        /\ lastOp' = "next" =>
             /\ folder' = folder /\ files' = files
             /\ index' = (index + 1) % Len(files)
        /\ lastOp' = "prev" =>
             /\ folder' = folder /\ files' = files
             /\ index' = (index - 1) % Len(files)
        /\ lastOp' = "toggle" =>
             folder' = folder /\ files' = files /\ index' = index
        /\ lastOp' = "choose" =>
             /\ folder' # <<>>
             /\ files' = Enumerate(folder'[1])
             /\ index' = 0 ]_vars

\* C15 witness: next has moved onto a file that does not decode.
C15_Witness ==
  /\ decoded = "failed"
  /\ lastOp = "next"
  /\ HasCurrent
  /\ Resolve(At(files, index)) \in CorruptFiles

\* C19: whenever the viewer holds an image, it is the image of the current
\* file.
C19_ShownIsCurrent ==
  shown # <<>> => HasCurrent /\ shown[1] = At(files, index)

\* C20: after selecting a folder, next, previous and toggle, the heart is
\* filled exactly when there is a current image and it is a favorite.
C20_IconMatchesCurrent ==
  lastOp \in {"choose", "next", "prev", "toggle"} =>
    (favIcon <=> (HasCurrent /\ At(files, index) \in favorites))

----------------------------------------------------------------------------
(* _apply_exif_orientation applied to an image *)

ExifTags ==
  { ExifTag("absent", 0), ExifTag("corrupt", 0) }
  \cup { ExifTag("value", v) : v \in 0..MaxTag }

TestImages == { TestImage(w, h) : w \in 1..MaxSide, h \in 1..MaxSide }

InitOrient ==
  /\ Construct(MissingFile)
  /\ ExportIdle
  /\ walk = <<>>
  /\ tag \in ExifTags
  /\ raster \in TestImages

\* load_image reaches line 78 or 88 with the decoded image.
Orient ==
  /\ lastOp = "init"
  /\ lastOp' = "orient"
  /\ raster' = ApplyExifOrientation(tag, raster)
  /\ UNCHANGED << folder, files, index, favorites, favFile, shown, favIcon,
                  msg, err, wrote, prev1, prev2, decoded, dest, copied, log,
                  tag, walk >>

NextOrient == Orient

SpecOrient == InitOrient /\ [][NextOrient]_vars

\* The pixel of the upright image at column u, row v, taken from img, for
\* each documented orientation: 2 mirror-horizontal, 3 rotate-180, 4
\* mirror-vertical, 5 transpose, 6 rotate-90-CW, 7 transverse, 8
\* rotate-90-CCW.
Upright(o, img) ==
  LET W == img.w
      H == img.h
      turned == o \in {5, 6, 7, 8}
      w2 == IF turned THEN H ELSE W
      h2 == IF turned THEN W ELSE H
      from(u, v) ==
        CASE o = 2 -> << W - 1 - u, v >>
          [] o = 3 -> << W - 1 - u, H - 1 - v >>
          [] o = 4 -> << u, H - 1 - v >>
          [] o = 5 -> << v, u >>
          [] o = 6 -> << v, H - 1 - u >>
          [] o = 7 -> << W - 1 - v, H - 1 - u >>
          [] o = 8 -> << W - 1 - v, u >>
          [] OTHER -> << u, v >>
  IN  Image(w2, h2,
            [d \in (0..(w2 - 1)) \X (0..(h2 - 1)) |-> img.px[from(d[1], d[2])]])

----------------------------------------------------------------------------
(* choose_folder on a folder walked in an arbitrary order *)

\* x put into an ascending list, behind the entries that are not greater.
RECURSIVE InsertSorted(_, _)
InsertSorted(x, sorted) ==
  IF sorted = <<>> THEN <<x>>
  ELSE IF PathLess(x, Head(sorted)) THEN <<x>> \o sorted
  ELSE <<Head(sorted)>> \o InsertSorted(x, Tail(sorted))

\* sorted(list) on a list of Path objects.
RECURSIVE SortedList(_)
SortedList(list) ==
  IF list = <<>> THEN <<>>
  ELSE InsertSorted(list[Len(list)], SortedList(SubSeq(list, 1, Len(list) - 1)))

\* Lines 227-229 with the test p.is_file() left out.
EnumerateWalk_NoIsFile(entries) ==
  SortedList(SelectSeq(entries, LAMBDA p : Lower(Suffix(p)) \in IMAGE_EXTS))

\* Lines 227-229 for a folder whose rglob yields the entries in this order.
EnumerateWalk(entries) ==
  SortedList(SelectSeq(entries,
                       LAMBDA p : Lower(Suffix(p)) \in IMAGE_EXTS /\ IsFile(p)))

\* The orders in which the elements of S can be listed.
Orders(S) == { q \in DistinctSeqs(S, Cardinality(S)) : Len(q) = Cardinality(S) }

InitEnum ==
  /\ Construct(MissingFile)
  /\ ExportIdle
  /\ tag = NoTag
  /\ raster = NoImage
  /\ \E f \in DialogFolders : walk \in Orders(RGlob(f))

\* MainWindow.choose_folder when the dialog returns the folder f and rglob
\* yields its entries in the order walk.
ChooseFolderWalk(f) ==
  LET fs == EnumerateWalk(walk)
      sc == ShowCurrent(fs, 0, favorites, shown, favIcon)
  IN  /\ lastOp = "init"
      /\ { walk[i] : i \in 1..Len(walk) } = RGlob(f)
      /\ folder' = <<f>>
      /\ files' = fs
      /\ lastOp' = "choose"
      /\ wrote' = "none"
      /\ prev1' = <<>>
      /\ prev2' = <<>>
      /\ UNCHANGED << favorites, favFile >>
      /\ NoExport
      /\ PureUnchanged
      /\ IF fs = <<>>
           THEN /\ msg' = "No images"
                /\ err' = "none"
                /\ decoded' = "none"
                /\ UNCHANGED << index, shown, favIcon >>
           ELSE /\ msg' = "none"
                /\ index' = 0
                /\ shown' = sc.shown
                /\ favIcon' = sc.icon
                /\ err' = sc.err
                /\ decoded' = sc.decoded

NextEnum == \E f \in DialogFolders : ChooseFolderWalk(f)

SpecEnum == InitEnum /\ [][NextEnum]_vars

\* The regular files below the folder f with a supported extension, named
\* through f.
QualifyingFiles(f) ==
  { Join(f, SubSeq(e, Len(Resolve(f)) + 1, Len(e))) :
      e \in { r \in RegularFiles :
                /\ Len(r) > Len(Resolve(f))
                /\ SubSeq(r, 1, Len(Resolve(f))) = Resolve(f)
                /\ Lower(Suffix(r)) \in IMAGE_EXTS } }

\* The file list holds exactly the qualifying files of the folder.
ListsQualifying ==
  /\ folder # <<>>
  /\ { files[i] : i \in 1..Len(files) } = QualifyingFiles(folder[1])
  /\ Len(files) = Cardinality(QualifyingFiles(folder[1]))

----------------------------------------------------------------------------
(* export_favorites *)

\* A favorite in /r whose file is gone.
FileG == Join(DirR, << <<"g", ".", "j", "p", "g">> >>)

\* path.stem
Stem(p) == SubSeq(Name(p), 1, Len(Name(p)) - Len(Suffix(p)))

Digits == << "0", "1", "2", "3", "4", "5", "6", "7", "8", "9" >>

\* The text of i in an f-string, i >= 0.
RECURSIVE Decimal(_)
Decimal(i) ==
  IF i < 10 THEN << Digits[i + 1] >>
  ELSE Decimal(i \div 10) \o << Digits[(i % 10) + 1] >>

\* Line 311 filtering by "the favorite lies anywhere below the folder".
FavsInFolder_Below(favs, f) ==
  { p \in favs :
      /\ Len(Resolve(Parent(p))) >= Len(Resolve(f))
      /\ SubSeq(Resolve(Parent(p)), 1, Len(Resolve(f))) = Resolve(f) }

\* Line 311, favs_in_folder as a set.
FavsInFolder(favs, f) == { p \in favs : Resolve(Parent(p)) = Resolve(f) }

\* Lines 328-334: the first of stem_i+suf, stem_(i+1)+suf, ... that is not in
\* the export folder d.
RECURSIVE AltName(_, _, _, _)
AltName(stem, suf, i, d) ==
  LET alt == stem \o <<"_">> \o Decimal(i) \o suf
  IN  IF alt \notin d THEN alt ELSE AltName(stem, suf, i + 1, d)

\* Lines 325-334 without the test at line 326.
DstName_Overwrite(src, d) == Name(src)

\* Lines 325-334 with the probe starting at 2.
DstName_FromTwo(src, d) ==
  IF Name(src) \notin d THEN Name(src)
  ELSE AltName(Stem(src), Suffix(src), 2, d)

\* Lines 325-334: the name under which src is copied into the export folder
\* whose entries are d.
DstName(src, d) ==
  IF Name(src) \notin d THEN Name(src)
  ELSE AltName(Stem(src), Suffix(src), 1, d)

\* What shutil.copy2 can do: copy the file, raise leaving nothing, raise
\* leaving a file behind.
CopyOutcomes == {"ok", "failed", "partial"}

\* One call of shutil.copy2: had are the entries of the export folder when
\* dst was chosen.
Attempt(src, dst, outcome, had) ==
  [src |-> src, dst |-> dst, outcome |-> outcome, had |-> had]

\* Lines 321-339 with the exception of line 338 ending the loop.
RECURSIVE CopyLoop_Abort(_, _, _, _, _)
CopyLoop_Abort(srcs, outcome, d, n, lg) ==
  IF srcs = <<>> THEN [dest |-> d, copied |-> n, log |-> lg]
  ELSE LET src == Head(srcs)
           dst == DstName(src, d)
           o   == outcome[src]
       IN  IF ~Exists(src)
             THEN CopyLoop_Abort(Tail(srcs), outcome, d, n, lg)
             ELSE IF o = "ok"
               THEN CopyLoop_Abort(Tail(srcs), outcome, d \cup {dst}, n + 1,
                                   Append(lg, Attempt(src, dst, o, d)))
               ELSE [dest   |-> IF o = "failed" THEN d ELSE d \cup {dst},
                     copied |-> n,
                     log    |-> Append(lg, Attempt(src, dst, o, d))]

\* Lines 321-339: the loop over favs_in_folder in the order srcs, from the
\* export folder d, the count n and the attempts lg so far.
RECURSIVE CopyLoop(_, _, _, _, _)
CopyLoop(srcs, outcome, d, n, lg) ==
  IF srcs = <<>> THEN [dest |-> d, copied |-> n, log |-> lg]
  ELSE LET src == Head(srcs)
           dst == DstName(src, d)
           o   == outcome[src]
       IN  IF ~Exists(src)
             THEN CopyLoop(Tail(srcs), outcome, d, n, lg)
             ELSE CopyLoop(Tail(srcs), outcome,
                           IF o = "failed" THEN d ELSE d \cup {dst},
                           IF o = "ok" THEN n + 1 ELSE n,
                           Append(lg, Attempt(src, dst, o, d)))

\* export_favorites dropping the favorites whose files are gone.
ExportFrame_Prune ==
  /\ favorites' = { p \in favorites : Exists(p) }
  /\ UNCHANGED << folder, files, index, favFile, shown, favIcon >>

\* export_favorites assigns no attribute of the window and writes no record.
ExportFrame ==
  UNCHANGED << folder, files, index, favorites, favFile, shown, favIcon >>

\* The entries the folder picked in the export dialog can hold.
InitDests ==
  { {}, {Name(FileC)}, {Name(FileC), AltName(Stem(FileC), Suffix(FileC), 1, {})} }

\* MainWindow.export_favorites.
ExportFavorites ==
  /\ lastOp' = "export"
  /\ err' = "none"
  /\ wrote' = "none"
  /\ prev1' = <<>>
  /\ prev2' = <<>>
  /\ decoded' = "none"
  /\ ExportFrame
  /\ PureUnchanged
  /\ IF folder = <<>>
       THEN /\ msg' = "No folder selected"
            /\ NoExport
       ELSE IF FavsInFolder(favorites, folder[1]) = {}
         THEN /\ msg' = "No favorites in folder"
              /\ NoExport
         ELSE \/ /\ msg' = "none"
                 /\ NoExport
              \/ \E had \in InitDests :
                 \E srcs \in Orders(FavsInFolder(favorites, folder[1])) :
                 \E outcome \in [{ p \in FavsInFolder(favorites, folder[1]) :
                                      Exists(p) } -> CopyOutcomes] :
                   LET run == CopyLoop(srcs, outcome, had, 0, <<>>)
                   IN  /\ msg' = "Export complete"
                       /\ dest' = run.dest
                       /\ copied' = run.copied
                       /\ log' = run.log

\* The record an export session starts from: it lists the favorite whose
\* file is gone.
ExportRecords == { JsonFile(<< Str(FileG) >>) }

InitExport ==
  /\ \E file \in ExportRecords : Construct(file)
  /\ ExportIdle
  /\ PureIdle

NextExport ==
  \/ ChooseFolderCancel
  \/ \E f \in DialogFolders : ChooseFolder(f)
  \/ NextImage
  \/ PrevImage
  \/ \E writeOk \in {TRUE}, truncated \in {FALSE} :
       ToggleFavorite(writeOk, truncated)
  \/ ExportFavorites

\* A session with exports, on a disk that takes every write of the record.
SpecExport == InitExport /\ [][NextExport]_vars

\* The favorite p lies directly in the active folder.
InActiveFolder(p) == folder # <<>> /\ Resolve(Parent(p)) = Resolve(folder[1])

\* C11: an export attempts only favorites whose parent resolves to the active
\* folder; favorites of other folders and of subfolders are never copied, do
\* not count, and raise no error; with nothing to export nothing is copied.
C11_ExportScoped ==
  lastOp = "export" =>
    /\ err = "none"
    /\ \A k \in 1..Len(log) :
         log[k].src \in favorites /\ InActiveFolder(log[k].src)
    /\ copied <= Cardinality({ p \in favorites : InActiveFolder(p) })
    /\ (\A p \in favorites : ~InActiveFolder(p)) =>
         log = <<>> /\ copied = 0 /\ msg # "Export complete"

\* C11 witness: with /m active and favorites in /m, in its subfolder and in
\* /r, an export copied the one file of /m.
C11_Witness ==
  /\ lastOp = "export"
  /\ folder = <<DirM>>
  /\ {FileA, FileAB, FileC} \subseteq favorites
  /\ msg = "Export complete"
  /\ copied = 1

\* C12: no copy of an export goes to a name the export folder already holds,
\* be it an entry from before the run or one an earlier copy of the run left;
\* every successful copy adds an entry.
C12_NoOverwrite ==
  lastOp = "export" =>
    /\ \A k \in 1..Len(log) :
         /\ log[k].dst \notin log[k].had
         /\ log[k].had \subseteq dest
         /\ log[k].outcome = "ok" => log[k].dst \in dest
         /\ \A j \in 1..(k - 1) :
              /\ log[j].had \subseteq log[k].had
              /\ log[j].outcome # "failed" => log[j].dst \in log[k].had
    /\ Len(log) > 0 =>
         Cardinality(dest) = Cardinality(log[1].had)
           + Cardinality({ k \in 1..Len(log) : log[k].outcome # "failed" })

\* C12 witness: one run copied two files of the same name into an empty
\* folder.
C12_Witness ==
  /\ lastOp = "export"
  /\ Len(log) = 2
  /\ log[1].had = {}
  /\ Name(log[1].src) = Name(log[2].src)
  /\ log[1].outcome = "ok"
  /\ log[2].outcome = "ok"
  /\ Cardinality(dest) = 2

\* The name stem_i+ext for the file src.
Numbered(src, i) == Stem(src) \o <<"_">> \o Decimal(i) \o Suffix(src)

\* C13: a copy keeps the name of its source when the export folder has no
\* entry of that name; else it goes to stem_i+ext for the smallest i >= 1
\* whose name is unused at that moment.
C13_SmallestFreeIndex ==
  lastOp = "export" =>
    \A k \in 1..Len(log) :
      IF Name(log[k].src) \notin log[k].had
        THEN log[k].dst = Name(log[k].src)
        ELSE \E i \in 1..(Cardinality(log[k].had) + 1) :
               /\ log[k].dst = Numbered(log[k].src, i)
               /\ log[k].dst \notin log[k].had
               /\ \A j \in 1..(i - 1) :
                    Numbered(log[k].src, j) \in log[k].had

\* C13 witness: into a folder holding c.PNG one run copied c.PNG twice, to
\* c_1.PNG and then to c_2.PNG.
C13_Witness ==
  /\ lastOp = "export"
  /\ Len(log) = 2
  /\ log[1].had = {Name(FileC)}
  /\ log[1].dst = <<"c", "_", "1", ".", "P", "N", "G">>
  /\ log[2].dst = <<"c", "_", "2", ".", "P", "N", "G">>

\* C14: a completed export attempted every favorite of the active folder that
\* exists, each once, whatever the other copies did, skipped the missing
\* ones, and reports the number of copies that succeeded.
C14_PerFileIsolation ==
  (lastOp = "export" /\ msg = "Export complete") =>
    /\ { log[k].src : k \in 1..Len(log) }
         = { p \in favorites : InActiveFolder(p) /\ Exists(p) }
    /\ Len(log) = Cardinality({ p \in favorites :
                                   InActiveFolder(p) /\ Exists(p) })
    /\ copied = Cardinality({ k \in 1..Len(log) : log[k].outcome = "ok" })

\* C14 witness: with a favorite of the folder missing, the first copy failed
\* and the second succeeded.
C14_Witness ==
  /\ lastOp = "export"
  /\ FileG \in favorites
  /\ InActiveFolder(FileG)
  /\ Len(log) = 2
  /\ log[1].outcome # "ok"
  /\ log[2].outcome = "ok"
  /\ copied = 1

\* C18: choosing a folder, next, previous (with the decoding they do) and
\* export leave the favorites and the record as they were; toggle leaves the
\* folder, the file list and the index as they were.
C18_OnlyToggleMutates ==
  [][ /\ lastOp' \in {"choose", "choose_cancel", "next", "prev", "export"} =>
           favorites' = favorites /\ favFile' = favFile
      /\ lastOp' = "toggle" =>
           folder' = folder /\ files' = files /\ index' = index ]_vars

\* C18 witness: a favorite whose file is gone is still a favorite after an
\* export of its folder that copied another file.
C18_Witness ==
  /\ lastOp = "export"
  /\ FileG \in favorites
  /\ InActiveFolder(FileG)
  /\ ~Exists(FileG)
  /\ WellFormed(favFile)
  /\ \E i \in 1..Len(Listed(favFile)) : Listed(favFile)[i] = Str(FileG)
  /\ copied >= 1

====
